---- MODULE Spec2Model ----
(***************************************************************************)
(* marb: a static-site HTTP server that loads a file tree into memory at   *)
(* startup (newFileServer / loadFiles / readFile / addFile) and answers    *)
(* every request from that store (ServeHTTP / serveFile / serve404).       *)
(*                                                                         *)
(* Paths are sequences of path segments.  A file-system path and a store   *)
(* key are clean, rooted paths (no empty segment); the path of a request   *)
(* is the raw text after the leading slash split at every slash, so "/" is *)
(* <<"">>, "/a/" is <<"a", "">> and "//a" is <<"", "a">>.                  *)
(* Times are counted in ticks; the HTTP date format keeps whole seconds.   *)
(* The response is what the handler hands to the http.ResponseWriter: the  *)
(* status, the headers it sets in w.Header(), the bytes it passes to       *)
(* Write ("written") and the bytes the writer transmits ("body": nothing   *)
(* for a HEAD request).  Headers the net/http server adds on its own       *)
(* (Date, an implicit Content-Length) are not part of the model.           *)
(***************************************************************************)
EXTENDS Integers, Sequences, FiniteSets, TLC

VARIABLES fs, cfg, phase, stack, pending, files, error404, loadErr, req, resp, conn

vars == <<fs, cfg, phase, stack, pending, files, error404, loadErr, req, resp, conn>>

(***************************************************************************)
(* Bounds of the model.                                                    *)
(***************************************************************************)
\* ticks per second of a modification time (the sub-second resolution)
TicksPerSecond == 2
\* symbolic links the kernel follows in one path lookup before ELOOP
MaxSymlinks == 2
\* the largest second an If-Modified-Since header of a request names
MaxSec == 2

(***************************************************************************)
(* Sequences and bytes.                                                    *)
(***************************************************************************)
RECURSIVE Rep(_, _)
Rep(b, n) == IF n = 0 THEN <<>> ELSE <<b>> \o Rep(b, n - 1)

Min(a, b) == IF a < b THEN a ELSE b

Front(s) == SubSeq(s, 1, Len(s) - 1)

Last(s) == s[Len(s)]

IsPrefix(p, s) == Len(p) <= Len(s) /\ SubSeq(s, 1, Len(p)) = p

(***************************************************************************)
(* package path: Clean, Join, Base, Dir, Ext on segment sequences.         *)
(***************************************************************************)
RECURSIVE CleanFrom(_, _)
CleanFrom(acc, rest) ==
    IF rest = <<>> THEN acc
    ELSE LET s == Head(rest) IN
         IF s = "" \/ s = "." THEN CleanFrom(acc, Tail(rest))
         ELSE IF s = ".." THEN CleanFrom(IF acc = <<>> THEN <<>> ELSE Front(acc), Tail(rest))
         ELSE CleanFrom(Append(acc, s), Tail(rest))

\* path.Clean of a rooted path
Clean(p) == CleanFrom(<<>>, p)

\* path.Join(a, b): the two joined by a slash, then cleaned
Join(a, b) == Clean(a \o b)

RECURSIVE StripTrailing(_)
StripTrailing(p) ==
    IF p # <<>> /\ Last(p) = "" THEN StripTrailing(Front(p)) ELSE p

\* path.Base of a rooted path: trailing slashes dropped, then the last
\* element; "/" when nothing is left
Base(p) == LET q == StripTrailing(p) IN IF q = <<>> THEN "/" ELSE Last(q)

\* path.Dir of a rooted path: everything before the final slash, cleaned
Dir(p) == IF p = <<>> THEN <<>> ELSE Clean(Front(p))

\* a clean path as the raw path of a request
ToRaw(p) == IF p = <<>> THEN <<"">> ELSE p

(***************************************************************************)
(* File names, in the byte order os.ReadDir returns them in, and the       *)
(* media type mime.TypeByExtension gives their extension ("" when the      *)
(* extension is unknown).                                                  *)
(***************************************************************************)
NameOrder == <<"a", "data", "dlnk", "empty", "eq.txt", "gone", "hello.txt",
               "index.html", "lnk", "loop", "missing.html", "www", "x.txt">>

TypeByExtension(name) ==
    IF name \in {"index.html", "missing.html"} THEN "text/html; charset=utf-8"
    ELSE IF name \in {"hello.txt", "eq.txt", "x.txt"} THEN "text/plain; charset=utf-8"
    ELSE ""

\* http.DetectContentType: text unless the leading bytes hold a binary byte
DetectContentType(data) ==
    IF \E i \in 1..Len(data) : data[i] < 9
    THEN "application/octet-stream"
    ELSE "text/plain; charset=utf-8"

(***************************************************************************)
(* compress/gzip, modelled as a run-length code behind the two gzip magic  *)
(* bytes: the output of a long run is shorter than its input, the output   *)
(* of a short or empty input is longer.                                    *)
(***************************************************************************)
GzipMagic == <<31, 139>>

RECURSIVE RunLength(_, _)
RunLength(data, n) ==
    IF n < Len(data) /\ data[n + 1] = data[1] THEN RunLength(data, n + 1) ELSE n

\* one (count, byte) pair for each run of equal bytes
Deflate[data \in Seq(Nat)] ==
    IF data = <<>> THEN <<>>
    ELSE LET n == RunLength(data, 1) IN
         <<n, data[1]>> \o Deflate[SubSeq(data, n + 1, Len(data))]

Gzip(data) == GzipMagic \o Deflate[data]

\* compressContents keeping the gzip bytes also when they are as long as the input
compressContentsNotLonger(contents) ==
    LET buf == Gzip(contents) IN
    IF Len(buf) > Len(contents)
    THEN [data |-> <<>>, ok |-> FALSE]
    ELSE [data |-> buf, ok |-> TRUE]

\* compressContents: the gzip bytes and true when they are shorter than the
\* input, nil and false otherwise (a write into a bytes.Buffer never fails)
compressContents(contents) ==
    LET buf == Gzip(contents) IN
    IF Len(buf) >= Len(contents)
    THEN [data |-> <<>>, ok |-> FALSE]
    ELSE [data |-> buf, ok |-> TRUE]

(***************************************************************************)
(* The file system: a function from clean paths to nodes.  A volatile file  *)
(* is one another process may rewrite while the server loads.              *)
(***************************************************************************)
File(data, mtime) ==
    [kind |-> "file", data |-> data, mtime |-> mtime, target |-> <<>>, volatile |-> FALSE]

Volatile(data, mtime) ==
    [kind |-> "file", data |-> data, mtime |-> mtime, target |-> <<>>, volatile |-> TRUE]

Directory ==
    [kind |-> "dir", data |-> <<>>, mtime |-> 0, target |-> <<>>, volatile |-> FALSE]

Symlink(target) ==
    [kind |-> "symlink", data |-> <<>>, mtime |-> 0, target |-> target, volatile |-> FALSE]

Hi == <<104, 105>>

Html == Rep(60, 6)

\* a site with index files, a file whose gzip form is as long as itself, an
\* empty file and a file that is being rewritten
PlainSite ==
    (<<>> :> Directory) @@ (<<"www">> :> Directory)
    @@ (<<"www", "index.html">> :> File(Html, 4))
    @@ (<<"www", "hello.txt">> :> File(Hi, 3))
    @@ (<<"www", "missing.html">> :> File(<<110, 111>>, 2))
    @@ (<<"www", "eq.txt">> :> File(Rep(97, 4), 2))
    @@ (<<"www", "empty">> :> File(<<>>, 2))
    @@ (<<"www", "data">> :> Volatile(Rep(100, 3), 1))
    @@ (<<"www", "a">> :> Directory)
    @@ (<<"www", "a", "index.html">> :> File(Rep(62, 7), 3))
    @@ (<<"www", "a", "x.txt">> :> File(Hi, 2))

\* a directory that is itself named like the index file
IndexNamedDir ==
    (<<>> :> Directory) @@ (<<"www">> :> Directory)
    @@ (<<"www", "index.html">> :> Directory)
    @@ (<<"www", "index.html", "index.html">> :> File(Html, 4))
    @@ (<<"www", "hello.txt">> :> File(Hi, 3))

\* a symbolic link to a regular file
FileLink ==
    (<<>> :> Directory) @@ (<<"www">> :> Directory)
    @@ (<<"www", "hello.txt">> :> File(Hi, 3))
    @@ (<<"www", "lnk">> :> Symlink(<<"www", "hello.txt">>))
    @@ (<<"www", "missing.html">> :> File(Html, 2))

\* a symbolic link to a directory
DirLink ==
    (<<>> :> Directory) @@ (<<"www">> :> Directory)
    @@ (<<"www", "a">> :> Directory)
    @@ (<<"www", "a", "index.html">> :> File(Html, 3))
    @@ (<<"www", "a", "x.txt">> :> File(Hi, 2))
    @@ (<<"www", "dlnk">> :> Symlink(<<"www", "a">>))

\* a symbolic link to an ancestor directory
LoopLink ==
    (<<>> :> Directory) @@ (<<"www">> :> Directory)
    @@ (<<"www", "a">> :> Directory)
    @@ (<<"www", "a", "loop">> :> Symlink(<<"www">>))
    @@ (<<"www", "hello.txt">> :> File(Hi, 3))

\* a symbolic link to nothing
DanglingLink ==
    (<<>> :> Directory) @@ (<<"www">> :> Directory)
    @@ (<<"www", "gone">> :> Symlink(<<"www", "nothing">>))
    @@ (<<"www", "hello.txt">> :> File(Hi, 3))

\* two symbolic links that point to each other
MutualLinks ==
    (<<>> :> Directory) @@ (<<"www">> :> Directory)
    @@ (<<"www", "hello.txt">> :> File(Hi, 3))
    @@ (<<"www", "lnk">> :> Symlink(<<"www", "loop">>))
    @@ (<<"www", "loop">> :> Symlink(<<"www", "lnk">>))

\* no root directory at all
NoRoot == (<<>> :> Directory)

Worlds ==
    {PlainSite, IndexNamedDir, FileLink, DirLink, LoopLink, MutualLinks, DanglingLink, NoRoot}

(***************************************************************************)
(* The system calls of package os, on the file system f.                   *)
(***************************************************************************)
\* the kernel's path lookup: every symbolic link on the way is followed, the
\* last component only when follow is set; at most MaxSymlinks links
RECURSIVE Walk(_, _, _, _, _)
Walk(f, cur, rest, follow, fuel) ==
    IF rest = <<>> THEN [err |-> "", path |-> cur]
    ELSE LET cand == Append(cur, Head(rest))
             last == Len(rest) = 1
         IN  IF cand \notin DOMAIN f THEN [err |-> "ENOENT", path |-> <<>>]
             ELSE IF f[cand].kind = "symlink" /\ (~last \/ follow)
                  THEN IF fuel = 0 THEN [err |-> "ELOOP", path |-> <<>>]
                       ELSE Walk(f, <<>>, f[cand].target \o Tail(rest), follow, fuel - 1)
             ELSE IF ~last /\ f[cand].kind # "dir" THEN [err |-> "ENOTDIR", path |-> <<>>]
             ELSE Walk(f, cand, Tail(rest), follow, fuel)

\* os.FileInfo of a node: a symbolic link has ModeSymlink and not ModeDir
FileInfo(node) ==
    [err |-> "",
     mode |-> IF node.kind = "dir" THEN {"ModeDir"}
              ELSE IF node.kind = "symlink" THEN {"ModeSymlink"} ELSE {},
     size |-> Len(node.data),
     modTime |-> node.mtime]

NoInfo(e) == [err |-> e, mode |-> {}, size |-> 0, modTime |-> 0]

StatWith(f, p, follow) ==
    LET r == Walk(f, <<>>, p, follow, MaxSymlinks) IN
    IF r.err # "" THEN NoInfo(r.err) ELSE FileInfo(f[r.path])

\* os.Lstat: the link itself
Lstat(f, p) == StatWith(f, p, FALSE)

\* os.Stat: what the link points to
Stat(f, p) == StatWith(f, p, TRUE)

IsDir(fi) == "ModeDir" \in fi.mode

\* os.ReadDir: the entries of the directory p names, sorted by file name
ReadDir(f, p) ==
    LET r == Walk(f, <<>>, p, TRUE, MaxSymlinks) IN
    IF r.err # "" THEN [err |-> r.err, names |-> <<>>]
    ELSE IF f[r.path].kind # "dir" THEN [err |-> "ENOTDIR", names |-> <<>>]
    ELSE [err |-> "",
          names |-> SelectSeq(NameOrder, LAMBDA n : Append(r.path, n) \in DOMAIN f)]

\* os.Open and one File.Read into a buffer of size zero bytes: the bytes
\* read overwrite the head of the buffer, io.EOF when a non-empty buffer
\* gets nothing
ReadInto(f, p, size) ==
    LET r == Walk(f, <<>>, p, TRUE, MaxSymlinks) IN
    IF r.err # "" THEN [err |-> r.err, contents |-> <<>>]
    ELSE IF f[r.path].kind # "file" THEN [err |-> "EISDIR", contents |-> <<>>]
    ELSE LET data == f[r.path].data
             n == Min(size, Len(data))
         IN  IF size > 0 /\ n = 0 THEN [err |-> "EOF", contents |-> <<>>]
             ELSE [err |-> "", contents |-> SubSeq(data, 1, n) \o Rep(0, size - n)]

(***************************************************************************)
(* siteFile and the loader.                                                *)
(***************************************************************************)
\* the nil *siteFile
NilFile ==
    [contents |-> <<>>, mimeType |-> "", isGzipped |-> FALSE, name |-> "",
     dir |-> <<>>, lastModified |-> -1]

\* readFile(name, size); lastModified is set by the caller
readFile(f, name, size) ==
    LET rd == ReadInto(f, name, size)
        byExt == TypeByExtension(Base(name))
        mimeType == IF byExt = "" THEN DetectContentType(rd.contents) ELSE byExt
        z == compressContents(rd.contents)
    IN  IF rd.err # "" THEN [err |-> rd.err, file |-> NilFile]
        ELSE [err |-> "",
              file |-> [contents |-> IF z.ok THEN z.data ELSE rd.contents,
                        mimeType |-> mimeType,
                        isGzipped |-> z.ok,
                        name |-> Base(name),
                        dir |-> Dir(name),
                        lastModified |-> -1]]

Put(m, k, v) == [x \in DOMAIN m \cup {k} |-> IF x = k THEN v ELSE m[x]]

\* addFile without the entry under the directory
addFileNoAlias(m, index, f) == Put(m, Join(f.dir, <<f.name>>), f)

\* addFile with an entry under the directory of every file
addFileAliasAll(m, index, f) == Put(Put(m, f.dir, f), Join(f.dir, <<f.name>>), f)

\* addFile: under dir/name, and under dir too when name is the index name
addFile(m, index, f) ==
    LET aliased == IF f.name = index THEN Put(m, f.dir, f) ELSE m
    IN  Put(aliased, Join(f.dir, <<f.name>>), f)

Lookup(m, k) == IF k \in DOMAIN m THEN m[k] ELSE NilFile

NoPending == [path |-> <<>>, size |-> -1, modTime |-> -1]

\* the entry is tried again after an error
FailRetry(e) ==
    /\ loadErr' = e
    /\ UNCHANGED <<fs, cfg, phase, stack, pending, files, error404, req, resp, conn>>

Fail(e) ==
    /\ phase' = "failed"
    /\ loadErr' = e
    /\ stack' = <<>>
    /\ pending' = NoPending
    /\ UNCHANGED <<fs, cfg, files, error404, req, resp, conn>>

\* loadFiles(curPath) up to the call of readFile: Lstat, the symbolic-link
\* test, Stat, and for a directory ReadDir and the calls for its entries
LoadStat ==
    /\ phase = "loading" /\ pending = NoPending /\ stack # <<>>
    /\ LET curPath == Head(stack)
           li == Lstat(fs, curPath)
           isLink == "ModeSymlink" \in li.mode
           fi == IF li.err = "" /\ isLink THEN Stat(fs, curPath) ELSE li
           rd == ReadDir(fs, curPath)
       IN  IF li.err # "" THEN Fail(li.err)
           ELSE IF isLink /\ IsDir(li) THEN Fail("directory symbolic links are not allowed")
           ELSE IF fi.err # "" THEN Fail(fi.err)
           ELSE IF ~IsDir(fi)
                THEN /\ pending' = [path |-> curPath, size |-> fi.size, modTime |-> fi.modTime]
                     /\ stack' = Tail(stack)
                     /\ UNCHANGED <<fs, cfg, phase, files, error404, loadErr, req, resp, conn>>
           ELSE IF rd.err # "" THEN Fail(rd.err)
           ELSE /\ stack' = [i \in 1..Len(rd.names) |-> Join(curPath, <<rd.names[i]>>)]
                            \o Tail(stack)
                /\ UNCHANGED <<fs, cfg, phase, pending, files, error404, loadErr, req, resp, conn>>

\* another process rewrites a volatile file between the stat and the read
EnvModify ==
    /\ phase = "loading" /\ pending # NoPending
    /\ LET r == Walk(fs, <<>>, pending.path, TRUE, MaxSymlinks) IN
       /\ r.err = ""
       /\ fs[r.path].volatile
       /\ Len(fs[r.path].data) = pending.size
       /\ \E data \in {<<>>, Front(fs[r.path].data), Append(fs[r.path].data, 101)} :
             fs' = [fs EXCEPT ![r.path].data = data]
    /\ UNCHANGED <<cfg, phase, stack, pending, files, error404, loadErr, req, resp, conn>>

\* loadFiles from the call of readFile on: read, set lastModified, addFile
LoadRead ==
    /\ phase = "loading" /\ pending # NoPending
    /\ LET r == readFile(fs, pending.path, pending.size) IN
       IF r.err # "" THEN Fail(r.err)
       ELSE /\ files' = addFile(files, cfg.index,
                                [r.file EXCEPT !.lastModified = pending.modTime])
            /\ pending' = NoPending
            /\ UNCHANGED <<fs, cfg, phase, stack, error404, loadErr, req, resp, conn>>

\* newFileServer after loadFiles returned nil: the fallback record
LoadDone ==
    /\ phase = "loading" /\ pending = NoPending /\ stack = <<>>
    /\ error404' = Lookup(files, Join(cfg.root, cfg.fourOhFour))
    /\ phase' = "serving"
    /\ UNCHANGED <<fs, cfg, stack, pending, files, loadErr, req, resp, conn>>

(***************************************************************************)
(* Requests and responses.                                                 *)
(***************************************************************************)
\* the value of a request header: absent, present and empty, text that is
\* no date, a date in http.TimeFormat (IMF-fixdate), or a date in the
\* obsolete RFC 850 format
Absent == [fmt |-> "absent", sec |-> 0]

HeaderValues ==
    {Absent, [fmt |-> "empty", sec |-> 0], [fmt |-> "garbage", sec |-> 0],
     [fmt |-> "rfc850", sec |-> MaxSec]}
    \cup {[fmt |-> "imf", sec |-> t] : t \in 0..MaxSec}

\* Header.Get(...) is the empty string
IsEmptyString(v) == v.fmt \in {"absent", "empty"}

\* time.Parse(http.TimeFormat, v): only the IMF-fixdate layout parses
ParseTime(v) ==
    IF v.fmt = "imf" THEN [err |-> FALSE, time |-> v.sec * TicksPerSecond]
    ELSE [err |-> TRUE, time |-> 0]

\* Time.Format(http.TimeFormat): the whole seconds of t
FormatTime(t) == t \div TicksPerSecond

Methods == {"GET", "HEAD", "OPTIONS", "POST"}

RequestPaths ==
    {<<"">>, <<"index.html">>, <<"hello.txt">>, <<"a">>, <<"a", "">>,
     <<"a", "index.html">>, <<"a", "index.html", "">>, <<"index.html", "index.html">>,
     <<"nope">>, <<"nope", "index.html">>, <<"missing.html">>, <<"eq.txt">>,
     <<"data">>, <<"lnk">>, <<"dlnk">>, <<"..", "www", "hello.txt">>,
     <<"..", "hello.txt">>, <<"hello.txt", "x.txt">>}

Requests ==
    [method : Methods, path : RequestPaths, ims : HeaderValues,
     xfp : {"", "http", "https"}, host : {"req.test"}]

NoRequest == [method |-> "", path |-> <<>>, ims |-> Absent, xfp |-> "", host |-> ""]

NoLocation == [scheme |-> "", host |-> "", path |-> <<>>]

NoBody == [kind |-> "none", bytes |-> <<>>]

\* "404 page not found\n"
NotFoundText ==
    [kind |-> "bytes",
     bytes |-> <<52, 48, 52, 32, 112, 97, 103, 101, 32, 110, 111, 116, 32,
                 102, 111, 117, 110, 100, 10>>]

\* the ResponseWriter before the handler touched it
NewWriter ==
    [status |-> 0, location |-> NoLocation, contentLength |-> -1, contentType |-> "",
     lastModified |-> -1, contentEncoding |-> "", allow |-> "", nosniff |-> FALSE,
     written |-> NoBody, body |-> NoBody, steps |-> <<>>]

Step(w, name) == [w EXCEPT !.steps = Append(@, name)]

\* ResponseWriter.Write: the first Write sends status 200 if none was set;
\* the bytes of a HEAD response are dropped
Write(w, r, data) ==
    [w EXCEPT !.status = IF @ = 0 THEN 200 ELSE @,
              !.written = data,
              !.body = IF r.method = "HEAD" THEN NoBody ELSE data]

\* the handler returned: status 200 if none was set
Finish(w) == [w EXCEPT !.status = IF @ = 0 THEN 200 ELSE @]

\* http.Redirect: Location, for GET and HEAD a Content-Type, the status,
\* and for GET a short HTML body
Redirect(w, r, loc, code) ==
    LET h == [w EXCEPT !.location = loc,
                       !.contentType = IF @ = "" /\ r.method \in {"GET", "HEAD"}
                                       THEN "text/html; charset=utf-8" ELSE @,
                       !.status = code]
    IN  IF w.contentType = "" /\ r.method = "GET"
        THEN Write(h, r, [kind |-> "redirect", bytes |-> <<>>])
        ELSE h

\* http.NotFound
NotFound(w, r) ==
    Write([w EXCEPT !.contentType = "text/plain; charset=utf-8",
                    !.nosniff = TRUE,
                    !.status = 404],
          r, NotFoundText)

\* siteFile.SetHeaders
SetHeaders(f, w) ==
    [w EXCEPT !.contentLength = Len(f.contents),
              !.contentType = f.mimeType,
              !.lastModified = FormatTime(f.lastModified),
              !.contentEncoding = IF f.isGzipped THEN "gzip" ELSE @]

(***************************************************************************)
(* The request handler, on the store m, the fallback record e and the      *)
(* configuration c.                                                        *)
(***************************************************************************)
resolveFile(m, c, p) == Lookup(m, Join(c.root, p))

\* serveOptions with a comma-joined list and no WriteHeader
serveOptionsPlain(w) ==
    [Step(w, "serveOptions") EXCEPT !.allow = "OPTIONS,GET,HEAD"]

serveOptions(w) ==
    [Step(w, "serveOptions") EXCEPT !.allow = "OPTIONS, GET, HEAD", !.status = 204]

\* serve404 setting the record's headers for GET only
serve404HeadersForGet(e, w, r) ==
    LET w1 == Step(w, "serve404") IN
    IF e = NilFile THEN NotFound(w1, r)
    ELSE IF r.method # "HEAD"
         THEN Write([SetHeaders(e, w1) EXCEPT !.status = 404], r,
                    [kind |-> "bytes", bytes |-> e.contents])
         ELSE [w1 EXCEPT !.status = 404]

\* serve404 without the call of WriteHeader
serve404NoStatus(e, w, r) ==
    LET w1 == Step(w, "serve404") IN
    IF e = NilFile THEN NotFound(w1, r)
    ELSE IF r.method # "HEAD"
         THEN Write(SetHeaders(e, w1), r, [kind |-> "bytes", bytes |-> e.contents])
         ELSE SetHeaders(e, w1)

serve404(e, w, r) ==
    LET w1 == Step(w, "serve404") IN
    IF e = NilFile THEN NotFound(w1, r)
    ELSE LET w2 == [SetHeaders(e, w1) EXCEPT !.status = 404] IN
         IF r.method # "HEAD"
         THEN Write(w2, r, [kind |-> "bytes", bytes |-> e.contents])
         ELSE w2

redirectIndex(w, r) ==
    Redirect(Step(w, "redirectIndex"), r,
             [scheme |-> "", host |-> "", path |-> ToRaw(Dir(r.path))], 301)

redirectToHTTPS(c, w, r) ==
    LET host == IF c.name = "" THEN r.host ELSE c.name IN
    Redirect(Step(w, "redirectToHTTPS"), r,
             [scheme |-> "https", host |-> host, path |-> r.path], 301)

\* shouldRedirectToHTTPS without the test of forceHTTPS
shouldRedirectIgnoringFlag(c, r) == r.xfp = "http"

shouldRedirectToHTTPS(c, r) ==
    IF ~c.forceHTTPS THEN FALSE ELSE r.xfp = "http"

\* modSinceTime.After(f.lastModified) in place of !Before
StrictlyAfter(t, lastModified) == t > lastModified

\* serveFile with the index-name test ahead of the lookup and the
\* conditional check ahead of both
serveFileReordered(m, e, c, w, r) ==
    LET w1 == Step(w, "serveFile")
        f == resolveFile(m, c, r.path)
        t == ParseTime(r.ims)
    IN  IF ~IsEmptyString(r.ims) /\ t.err
        THEN [Step(w1, "ifModifiedSince") EXCEPT !.status = 400]
        ELSE IF Base(r.path) = c.index THEN redirectIndex(w1, r)
        ELSE IF f = NilFile THEN serve404(e, w1, r)
        ELSE IF ~IsEmptyString(r.ims) /\ ~(t.time < f.lastModified)
             THEN [SetHeaders(f, Step(w1, "ifModifiedSince")) EXCEPT !.status = 304]
        ELSE LET w2 == SetHeaders(f, w1)
             IN  IF r.method # "HEAD"
                 THEN Write(w2, r, [kind |-> "bytes", bytes |-> f.contents])
                 ELSE w2

\* !modSinceTime.Before(f.lastModified)
NotBefore(t, lastModified) == ~(t < lastModified)

serveFile(m, e, c, w, r) ==
    LET w1 == Step(w, "serveFile")
        f == resolveFile(m, c, r.path)
        t == ParseTime(r.ims)
    IN  IF f = NilFile THEN serve404(e, w1, r)
        ELSE IF Base(r.path) = c.index THEN redirectIndex(w1, r)
        ELSE IF ~IsEmptyString(r.ims) /\ t.err
             THEN [Step(w1, "ifModifiedSince") EXCEPT !.status = 400]
        ELSE IF ~IsEmptyString(r.ims) /\ NotBefore(t.time, f.lastModified)
             THEN [SetHeaders(f, Step(w1, "ifModifiedSince")) EXCEPT !.status = 304]
        ELSE LET w2 == SetHeaders(f, IF IsEmptyString(r.ims) THEN w1
                                     ELSE Step(w1, "ifModifiedSince"))
             IN  IF r.method # "HEAD"
                 THEN Write(w2, r, [kind |-> "bytes", bytes |-> f.contents])
                 ELSE w2

logRequest(w, r) == Step(w, "logRequest")

\* the switch of ServeHTTP with serveFile as the default case
dispatchDefaultServes(m, e, c, w, r) ==
    IF r.method = "OPTIONS" THEN serveOptions(w) ELSE serveFile(m, e, c, w, r)

\* the switch of ServeHTTP
dispatch(m, e, c, w, r) ==
    IF r.method = "OPTIONS" THEN serveOptions(w)
    ELSE IF r.method \in {"GET", "HEAD"} THEN serveFile(m, e, c, w, r)
    ELSE [w EXCEPT !.status = 405]

\* ServeHTTP, from the call to the return of the handler
ServeHTTPOn(m, e, c, r) ==
    LET w == logRequest(NewWriter, r) IN
    Finish(IF shouldRedirectToHTTPS(c, r) THEN redirectToHTTPS(c, w, r)
           ELSE dispatch(m, e, c, w, r))

(***************************************************************************)
(* The server: one request at a time.                                      *)
(***************************************************************************)
Idle == [pc |-> "idle", req |-> NoRequest, w |-> NewWriter]

\* the goroutines the transport runs ServeHTTP in
Handlers == {"h1", "h2"}

Configs ==
    [root : {<<"www">>}, index : {"index.html"},
     fourOhFour : {<<>>, <<"missing.html">>, <<"nope.html">>},
     forceHTTPS : BOOLEAN, name : {"", "example.com"}]

Init ==
    /\ fs \in Worlds
    /\ cfg \in {c \in Configs : c.forceHTTPS \/ c.name = ""}
    /\ phase = "loading"
    /\ stack = <<cfg.root>>
    /\ pending = NoPending
    /\ files = <<>>
    /\ error404 = NilFile
    /\ loadErr = ""
    /\ req = NoRequest
    /\ resp = NewWriter
    /\ conn = [h \in Handlers |-> Idle]

\* the transport calls ServeHTTP with a request
ServeHTTP ==
    /\ phase = "serving" /\ req = NoRequest
    /\ \E r \in Requests :
          /\ req' = r
          /\ resp' = ServeHTTPOn(files, error404, cfg, r)
    /\ UNCHANGED <<fs, cfg, phase, stack, pending, files, error404, loadErr, conn>>

\* the response is sent and the connection is ready for the next request
Respond ==
    /\ phase = "serving" /\ req # NoRequest
    /\ req' = NoRequest
    /\ resp' = NewWriter
    /\ UNCHANGED <<fs, cfg, phase, stack, pending, files, error404, loadErr, conn>>

Next == LoadStat \/ EnvModify \/ LoadRead \/ LoadDone \/ ServeHTTP \/ Respond

Spec == Init /\ [][Next]_vars

\* startup alone: newFileServer runs on without waiting for anything
NextLoad == LoadStat \/ EnvModify \/ LoadRead \/ LoadDone

SpecLoad ==
    /\ Init /\ [][NextLoad]_vars
    /\ WF_vars(LoadStat) /\ WF_vars(LoadRead) /\ WF_vars(LoadDone)

(***************************************************************************)
(* The server under concurrent requests: the transport runs ServeHTTP in   *)
(* one goroutine per request, and the goroutines interleave between the    *)
(* calls ServeHTTP makes.                                                  *)
(***************************************************************************)
ConcurrentRequests ==
    [method : {"GET", "HEAD", "POST"}, path : {<<"">>, <<"hello.txt">>, <<"nope">>},
     ims : {Absent, [fmt |-> "imf", sec |-> 0]}, xfp : {"", "http"}, host : {"req.test"}]

InitConcurrent ==
    /\ Init
    /\ fs = FileLink
    /\ cfg.name = ""
    /\ cfg.fourOhFour # <<"nope.html">>

\* ServeHTTP is called: logRequest
ConnAccept(h) ==
    /\ phase = "serving" /\ conn[h].pc = "idle"
    /\ \E r \in ConcurrentRequests :
          conn' = [conn EXCEPT ![h] = [pc |-> "gate", req |-> r,
                                       w |-> logRequest(NewWriter, r)]]
    /\ UNCHANGED <<fs, cfg, phase, stack, pending, files, error404, loadErr, req, resp>>

\* the HTTPS gate
ConnGate(h) ==
    /\ conn[h].pc = "gate"
    /\ conn' = [conn EXCEPT ![h] =
                  IF shouldRedirectToHTTPS(cfg, @.req)
                  THEN [@ EXCEPT !.pc = "done",
                                 !.w = Finish(redirectToHTTPS(cfg, @, conn[h].req))]
                  ELSE [@ EXCEPT !.pc = "dispatch"]]
    /\ UNCHANGED <<fs, cfg, phase, stack, pending, files, error404, loadErr, req, resp>>

\* the switch on the method, up to the call of serveFile
ConnDispatch(h) ==
    /\ conn[h].pc = "dispatch"
    /\ conn' = [conn EXCEPT ![h] =
                  IF @.req.method \in {"GET", "HEAD"}
                  THEN [@ EXCEPT !.pc = "serveFile"]
                  ELSE [@ EXCEPT !.pc = "done",
                                 !.w = Finish(dispatch(files, error404, cfg, @, conn[h].req))]]
    /\ UNCHANGED <<fs, cfg, phase, stack, pending, files, error404, loadErr, req, resp>>

\* serveFile remembering the fallback record under the path it missed
ConnServeFileCaching(h) ==
    /\ conn[h].pc = "serveFile"
    /\ conn' = [conn EXCEPT ![h] =
                  [@ EXCEPT !.pc = "done",
                            !.w = Finish(serveFile(files, error404, cfg, @, conn[h].req))]]
    /\ files' = IF resolveFile(files, cfg, conn[h].req.path) = NilFile /\ error404 # NilFile
                THEN Put(files, Join(cfg.root, conn[h].req.path), error404)
                ELSE files
    /\ UNCHANGED <<fs, cfg, phase, stack, pending, error404, loadErr, req, resp>>

\* serveFile
ConnServeFile(h) ==
    /\ conn[h].pc = "serveFile"
    /\ conn' = [conn EXCEPT ![h] =
                  [@ EXCEPT !.pc = "done",
                            !.w = Finish(serveFile(files, error404, cfg, @, conn[h].req))]]
    /\ UNCHANGED <<fs, cfg, phase, stack, pending, files, error404, loadErr, req, resp>>

\* ServeHTTP returned and the response is sent
ConnClose(h) ==
    /\ conn[h].pc = "done"
    /\ conn' = [conn EXCEPT ![h] = Idle]
    /\ UNCHANGED <<fs, cfg, phase, stack, pending, files, error404, loadErr, req, resp>>

NextConcurrent ==
    \/ LoadStat
    \/ LoadRead
    \/ LoadDone
    \/ \E h \in Handlers : ConnAccept(h)
    \/ \E h \in Handlers : ConnGate(h)
    \/ \E h \in Handlers : ConnDispatch(h)
    \/ \E h \in Handlers : ConnServeFile(h)
    \/ \E h \in Handlers : ConnClose(h)

SpecConcurrent == InitConcurrent /\ [][NextConcurrent]_vars

(***************************************************************************)
(* Properties.                                                             *)
(***************************************************************************)
\* a request has been answered and its response is at hand
Serving == phase = "serving" /\ req # NoRequest

\* the HTTPS gate answers the request
Gated == cfg.forceHTTPS /\ req.xfp = "http"

\* the request reaches serveFile
ReachesServeFile == Serving /\ req.method \in {"GET", "HEAD"} /\ ~Gated

\* the file of the file system a record was read from
SourceNode(f) == fs[Walk(fs, <<>>, Join(f.dir, <<f.name>>), TRUE, MaxSymlinks).path]

\* the inverse of Gzip
RECURSIVE Inflate(_)
Inflate(z) ==
    IF z = <<>> THEN <<>> ELSE Rep(z[2], z[1]) \o Inflate(SubSeq(z, 3, Len(z)))

Gunzip(z) == Inflate(SubSeq(z, Len(GzipMagic) + 1, Len(z)))

\* the bytes a record stands for
Original(f) == IF f.isGzipped THEN Gunzip(f.contents) ELSE f.contents

\* the bytes readFile got for a record
BytesRead(f) == IF SourceNode(f).volatile THEN Original(f) ELSE SourceNode(f).data

Shrinks(data) == Len(Gzip(data)) < Len(data)

\* the headers of a response
Headers(w) ==
    <<w.location, w.contentLength, w.contentType, w.lastModified, w.contentEncoding,
      w.allow, w.nosniff>>

\* the response carries the headers SetHeaders sets for f
HasHeadersOf(w, f) ==
    /\ w.contentLength = Len(f.contents)
    /\ w.contentType = f.mimeType
    /\ w.lastModified = f.lastModified \div TicksPerSecond
    /\ w.contentEncoding = IF f.isGzipped THEN "gzip" ELSE ""

Bytes(data) == [kind |-> "bytes", bytes |-> data]

\* the keys of the store that are directories holding an index file
IndexDirs == {k \in DOMAIN files : files[k].name = cfg.index /\ files[k].dir = k}

\* k is the path of a loaded file
FileLoadedAt(k) == k \in DOMAIN files /\ Join(files[k].dir, <<files[k].name>>) = k

C2_DirectoryServedIndexRedirected ==
    (Serving /\ req.method = "GET" /\ ~Gated /\ req.ims = Absent
       /\ req.path = ToRaw(Clean(req.path))) =>
        LET k == Join(cfg.root, req.path) IN
        /\ k \in IndexDirs =>
              resp.status = 200 /\ resp.body = Bytes(files[k].contents)
        /\ \A d \in IndexDirs :
              k = Append(d, cfg.index) =>
                 resp.status = 301 /\ Join(cfg.root, resp.location.path) = d

C4_HttpsGate ==
    Serving =>
      IF cfg.forceHTTPS /\ req.xfp = "http"
      THEN /\ resp.status = 301
           /\ resp.location = [scheme |-> "https",
                               host |-> IF cfg.name # "" THEN cfg.name ELSE req.host,
                               path |-> req.path]
           /\ resp.steps = <<"logRequest", "redirectToHTTPS">>
           /\ resp.contentLength = -1 /\ resp.allow = ""
      ELSE /\ resp.location.scheme # "https"
           /\ \A i \in 1..Len(resp.steps) : resp.steps[i] # "redirectToHTTPS"

\* a POST of a path that does not exist was redirected to the request's host
C4_Witness ==
    /\ Serving /\ cfg.forceHTTPS /\ cfg.name = "" /\ req.xfp = "http"
    /\ req.method = "POST" /\ req.path = <<"nope">>
    /\ resp.status = 301 /\ resp.location.host = "req.test"

\* the symbolic links under the root that point to a directory
DirSymlinks ==
    {p \in DOMAIN fs : IsPrefix(cfg.root, p) /\ fs[p].kind = "symlink" /\ IsDir(Stat(fs, p))}

\* the symbolic links under the root that point to a regular file
FileSymlinks ==
    {p \in DOMAIN fs : /\ IsPrefix(cfg.root, p) /\ fs[p].kind = "symlink"
                       /\ Stat(fs, p).err = "" /\ ~IsDir(Stat(fs, p))}

(* C5: a symbolic link to a directory in the tree makes the load fail: the *)
(* server never starts and nothing is loaded through the link; a symbolic  *)
(* link to a regular file is loaded as that file.                          *)
C5_DirectorySymlinkFailsLoad ==
    /\ DirSymlinks # {} =>
          /\ phase # "serving"
          /\ \A k \in DOMAIN files : \A p \in DirSymlinks : ~IsPrefix(p, k)
    /\ phase = "serving" =>
          \A p \in FileSymlinks :
             /\ p \in DOMAIN files
             /\ Original(files[p]) = fs[Walk(fs, <<>>, p, TRUE, MaxSymlinks).path].data

(* C6: with no fallback path configured, or one that names no loaded file, *)
(* there is no fallback record, and a GET or HEAD of an unresolved path    *)
(* gets the generic not-found response, never an asset's headers or body.  *)
C6_NoFallbackGeneric404 ==
    (phase = "serving"
       /\ (cfg.fourOhFour = <<>> \/ ~FileLoadedAt(Join(cfg.root, cfg.fourOhFour)))) =>
        /\ error404 = NilFile
        /\ (ReachesServeFile /\ resolveFile(files, cfg, req.path) = NilFile) =>
              /\ resp.status = 404
              /\ resp.contentLength = -1 /\ resp.lastModified = -1
              /\ resp.contentEncoding = ""
              /\ resp.written = NotFoundText

(* C7: a HEAD gets the status and the headers of the GET of the same path  *)
(* with the same request headers, and an empty body, whatever the status   *)
(* (200, 301, 304, 400, 404 with or without a fallback record).            *)
C7_HeadMatchesGet ==
    (Serving /\ req.method = "HEAD") =>
        LET get == ServeHTTPOn(files, error404, cfg, [req EXCEPT !.method = "GET"]) IN
        /\ resp.status = get.status
        /\ Headers(resp) = Headers(get)
        /\ resp.body = NoBody
        /\ resp.status \in {200, 301, 304, 400, 404}

\* a HEAD of an unresolved path got 404 with the headers of a compressed
\* fallback record
C7_Witness ==
    /\ Serving /\ req.method = "HEAD" /\ ~Gated
    /\ resp.status = 404 /\ error404 # NilFile
    /\ resp.contentEncoding = "gzip" /\ resp.contentLength > 0

(* C8: the store and the fallback record are complete before a request is  *)
(* handled and no step of any handler changes them, whatever the           *)
(* interleaving; the response of a handler is the one its request alone    *)
(* gives on that store.                                                    *)
C8_StoreFrozen ==
    [][/\ phase = "serving" =>
             /\ files' = files /\ error404' = error404 /\ cfg' = cfg
             /\ phase' = "serving"
       /\ \A h \in Handlers :
             /\ conn'[h].pc # "idle" => phase' = "serving"
             /\ conn'[h].pc = "done" =>
                   conn'[h].w = ServeHTTPOn(files', error404', cfg', conn'[h].req)]_vars

\* one handler has answered an unresolved GET with the fallback record
\* while the other is inside serveFile for another request
C8_Witness ==
    /\ conn["h1"].pc = "done" /\ conn["h1"].w.status = 404
    /\ conn["h1"].w.contentLength > 0
    /\ conn["h2"].pc = "serveFile" /\ conn["h2"].req # conn["h1"].req

(* C9: a file whose size at the read differs from the size the stat        *)
(* reported makes the load fail: every record of the store holds exactly   *)
(* the bytes of its file, never fewer, more, or zero-padded ones.          *)
C9_NoMismatchedRecord ==
    \A k \in DOMAIN files : Original(files[k]) = SourceNode(files[k]).data

(* C10: with a fallback record, a GET that reaches serveFile and does not  *)
(* resolve gets 404, the record's own headers and its stored bytes; a HEAD *)
(* the same status and headers, and no body.                               *)
C10_Fallback404 ==
    (ReachesServeFile /\ error404 # NilFile
       /\ resolveFile(files, cfg, req.path) = NilFile) =>
        /\ resp.status = 404
        /\ HasHeadersOf(resp, error404)
        /\ resp.location = NoLocation /\ resp.allow = ""
        /\ IF req.method = "GET"
           THEN resp.body = Bytes(error404.contents) /\ resp.written = resp.body
           ELSE resp.body = NoBody /\ resp.written = NoBody

\* a GET of an unresolved path got the raw fallback file, found under the
\* configured name
C10_Witness ==
    /\ ReachesServeFile /\ req.method = "GET" /\ req.path = <<"nope">>
    /\ cfg.fourOhFour = <<"missing.html">> /\ error404.name = "missing.html"
    /\ resp.status = 404 /\ resp.body = Bytes(<<110, 111>>)
    /\ resp.contentEncoding = ""

(* C11: an OPTIONS request the HTTPS gate lets through gets 204, Allow    *)
(* "OPTIONS, GET, HEAD" and no body, whatever its path and its             *)
(* If-Modified-Since; serveFile is not called, so the store is not read.   *)
C11_Options ==
    (Serving /\ req.method = "OPTIONS" /\ ~Gated) =>
        /\ resp.status = 204
        /\ resp.allow = "OPTIONS, GET, HEAD"
        /\ resp.body = NoBody /\ resp.written = NoBody
        /\ resp.steps = <<"logRequest", "serveOptions">>
        /\ resp.location = NoLocation /\ resp.contentLength = -1
        /\ resp.contentType = "" /\ resp.lastModified = -1

\* an OPTIONS of the index file's own name, which resolves, with a malformed
\* If-Modified-Since got 204
C11_Witness ==
    /\ Serving /\ req.method = "OPTIONS" /\ ~Gated
    /\ req.path = <<"a", "index.html">> /\ req.ims.fmt = "garbage"
    /\ resolveFile(files, cfg, req.path) # NilFile
    /\ resp.status = 204

\* the regular files the tree holds under the root
FilesUnderRoot == {p \in DOMAIN fs : IsPrefix(cfg.root, p) /\ fs[p].kind = "file"}

(* C12: after a successful load every file dir/name of the tree has an     *)
(* entry under dir/name, and one named like the index also an entry under  *)
(* dir that is the same record; every entry of the store is the record     *)
(* found under the dir/name of that record.                                *)
C12_AliasSameRecord ==
    phase = "serving" =>
        /\ \A p \in FilesUnderRoot :
              /\ p \in DOMAIN files
              /\ files[p].name = Last(p) /\ files[p].dir = Front(p)
              /\ Last(p) = cfg.index =>
                    Front(p) \in DOMAIN files /\ files[Front(p)] = files[p]
        /\ \A k \in DOMAIN files :
              /\ FileLoadedAt(Join(files[k].dir, <<files[k].name>>))
              /\ files[Join(files[k].dir, <<files[k].name>>)] = files[k]

\* the store holds a directory entry and the entry of its index file, and
\* an index file in a subdirectory too
C12_Witness ==
    /\ phase = "serving"
    /\ <<"www">> \in DOMAIN files /\ <<"www", "index.html">> \in DOMAIN files
    /\ files[<<"www">>] = files[<<"www", "index.html">>]
    /\ <<"www", "a">> \in DOMAIN files
    /\ files[<<"www", "a">>].contents # files[<<"www">>].contents

(* C14: a request the HTTPS gate lets through whose method is not OPTIONS, *)
(* GET or HEAD gets 405 and nothing else: no lookup, no asset header, no   *)
(* body, no look at If-Modified-Since.                                     *)
C14_MethodNotAllowed ==
    (Serving /\ ~Gated /\ req.method \notin {"OPTIONS", "GET", "HEAD"}) =>
        /\ resp.status = 405
        /\ resp.steps = <<"logRequest">>
        /\ Headers(resp) = Headers(NewWriter)
        /\ resp.body = NoBody /\ resp.written = NoBody

\* a POST of a path that resolves, with a malformed If-Modified-Since, got 405
C14_Witness ==
    /\ Serving /\ ~Gated /\ req.method = "POST"
    /\ req.path = <<"hello.txt">> /\ req.ims.fmt = "garbage"
    /\ resolveFile(files, cfg, req.path) # NilFile
    /\ resp.status = 405

(* C13: startup is all or nothing: a failure while the tree is walked or   *)
(* read (unreadable root, file or directory, directory symbolic link, size *)
(* mismatch) ends the load with an error at the first failing entry, and   *)
(* no request is ever served then; a server that serves has met none.      *)
C13_AllOrNothing ==
    /\ req # NoRequest => phase = "serving"
    /\ phase = "failed" =>
          /\ loadErr # "" /\ stack = <<>> /\ pending = NoPending
          /\ error404 = NilFile
    /\ phase = "serving" =>
          /\ loadErr = ""
          /\ DirSymlinks = {}
          /\ \A p \in DOMAIN fs :
                (IsPrefix(cfg.root, p) /\ fs[p].kind = "symlink") => Stat(fs, p).err = ""
          /\ \A k \in DOMAIN files : Original(files[k]) = SourceNode(files[k]).data

(* C15: the Last-Modified value of a 200 response, sent back unchanged as  *)
(* If-Modified-Since in a GET of the same path, gets 304, whatever the     *)
(* modification time of the file (also one with a sub-second part).        *)
C15_CacheRoundTrip ==
    LET first == ServeHTTPOn(files, error404, cfg, [req EXCEPT !.ims = Absent]) IN
    (ReachesServeFile /\ req.method = "GET"
       /\ first.status = 200
       /\ req.ims = [fmt |-> "imf", sec |-> first.lastModified]) =>
        resp.status = 304

(* C17: in serveFile the lookup comes first, the index-name redirect next, *)
(* the conditional check last: with an If-Modified-Since value, well       *)
(* formed or not, an unresolved path gets 404 (also one whose base name is *)
(* the index name) and a resolved index-name path 301; 400 and 304 are     *)
(* given only for resolved paths that are not the index name.              *)
C17_OrderOfChecks ==
    LET f == resolveFile(files, cfg, req.path) IN
    (ReachesServeFile /\ ~IsEmptyString(req.ims)) =>
        /\ f = NilFile =>
              /\ resp.status = 404
              /\ resp.steps = <<"logRequest", "serveFile", "serve404">>
        /\ (f # NilFile /\ Base(req.path) = cfg.index) =>
              /\ resp.status = 301
              /\ resp.steps = <<"logRequest", "serveFile", "redirectIndex">>
        /\ resp.status \in {304, 400} =>
              /\ f # NilFile /\ Base(req.path) # cfg.index
              /\ resp.steps = <<"logRequest", "serveFile", "ifModifiedSince">>

\* an unresolved path whose base name is the index name, with a malformed
\* If-Modified-Since, got 404
C17_Witness ==
    /\ ReachesServeFile /\ req.path = <<"nope", "index.html">>
    /\ req.ims.fmt = "garbage"
    /\ resolveFile(files, cfg, req.path) = NilFile
    /\ resp.status = 404

(* C18: whenever a GET gets the index-name 301, the Location is the parent *)
(* directory of the request path, it resolves to the record the request    *)
(* path resolves to, and a GET of it returns 200; for every form of path   *)
(* that resolves, trailing and repeated slashes included.                  *)
C18_RedirectLeadsToPage ==
    LET target == resp.location.path
        second == ServeHTTPOn(files, error404, cfg,
                              [req EXCEPT !.path = target, !.ims = Absent])
    IN  (ReachesServeFile /\ req.method = "GET" /\ resp.status = 301) =>
          /\ target = ToRaw(Dir(req.path))
          /\ resolveFile(files, cfg, target) = resolveFile(files, cfg, req.path)
          /\ resolveFile(files, cfg, target) # NilFile
          /\ second.status = 200

\* the components of p that are symbolic links
LinksOn(p) ==
    {n \in 1..Len(p) : "ModeSymlink" \in Lstat(fs, SubSeq(p, 1, n)).mode}

(* C16: the load ends, with a store or with an error, on every tree, also  *)
(* one with a symbolic link to an ancestor directory or with links that    *)
(* point to each other; no path it visits passes through more links than   *)
(* one lookup may follow, so no directory is entered without bound.        *)
C16_LoadTerminates ==
    /\ <>(phase \in {"serving", "failed"})
    /\ [](\A i \in 1..Len(stack) : Cardinality(LinksOn(stack[i])) <= MaxSymlinks + 1)

\* the load of a tree with a link to an ancestor ended with the kernel's
\* error for too many links
C16_Witness == phase = "failed" /\ fs = LoopLink /\ loadErr = "ELOOP"

\* the root-joined path k names a regular file under the root, or a
\* directory under the root that holds a regular file named like the index
Servable(k) ==
    /\ IsPrefix(cfg.root, k)
    /\ Stat(fs, k).err = ""
    /\ IsDir(Stat(fs, k)) =>
          /\ Stat(fs, Append(k, cfg.index)).err = ""
          /\ ~IsDir(Stat(fs, Append(k, cfg.index)))

(* C19: every key of the store is under the root and is the path of a      *)
(* loaded file or a directory that holds an index file (the key then has   *)
(* the index file's record); a GET or HEAD whose root-joined clean path is *)
(* neither takes the 404 path and never gets 200.                          *)
C19_OnlyLoadedKeys ==
    /\ \A k \in DOMAIN files :
          /\ Servable(k)
          /\ IF IsDir(Stat(fs, k))
             THEN /\ Append(k, cfg.index) \in DOMAIN files
                  /\ files[k] = files[Append(k, cfg.index)]
             ELSE FileLoadedAt(k)
    /\ (ReachesServeFile /\ ~Servable(Join(cfg.root, req.path))) =>
          /\ resp.status = 404
          /\ resp.steps = <<"logRequest", "serveFile", "serve404">>

\* a GET that leaves the root with ".." got 404 although a file of that
\* name is in the store, and so did a path that extends a file's path
C19_Witness ==
    /\ ReachesServeFile /\ req.method = "GET"
    /\ req.path \in {<<"..", "hello.txt">>, <<"hello.txt", "x.txt">>}
    /\ <<"www", "hello.txt">> \in DOMAIN files
    /\ <<"www">> \notin DOMAIN files
    /\ resp.status = 404

====
